---- MODULE Spec2Model ----
(***************************************************************************)
(* Model of the in-memory list-item store of server.py: the module-level   *)
(* list `listitems` and the handlers that read and mutate it.  Each        *)
(* handler is one action; the handlers' bodies are operators that map the  *)
(* collection before the call to the collection after it and the HTTP      *)
(* response.                                                               *)
(***************************************************************************)
EXTENDS Integers, Sequences, FiniteSets, TLC

VARIABLES listitems,  \* the module-level list (server.py:42)
          before,     \* listitems as it was when the last request arrived
          request,    \* the last request: handler and its parameters
          response    \* what the last request returned or raised

vars == <<listitems, before, request, response>>

----------------------------------------------------------------------------
(* Bounds of the explored inputs *)

MaxIndex == 1      \* item indices submitted by clients are 0..MaxIndex
MaxBatch == 2      \* longest batch submitted to add / update
MaxSeed  == 2      \* largest n given to /api/seed

----------------------------------------------------------------------------
(* ListItem, server.py:47-50 *)

DefaultContent == "Insert item content here."

ListItem(c, i, m) == [content |-> c, index |-> i, marked |-> m]

\* The items clients submit.  POST bodies carry the pydantic defaults;
\* PUT bodies carry the edited item, whose payload is the one /api/seed
\* generates for index 0.
NewItems == { ListItem(DefaultContent, i, FALSE) : i \in 0..MaxIndex }
EditedItems == { ListItem("Item 0", i, TRUE) : i \in 0..MaxIndex }

BatchesOf(S) == UNION { [1..len -> S] : len \in 0..MaxBatch }

\* Optional[T]: <<>> is None, <<x>> is the value x.
None == <<>>
Some(x) == <<x>>
Optional(S) == {None} \cup { Some(x) : x \in S }
IsGiven(o) == o # None
Val(o) == o[1]

\* Query-string parameters: an exact index is any client index, a range
\* bound is an end of the client index range (so ranges are a single index,
\* the whole range, or empty because start_index > end_index).
IndexParams == Optional(0..MaxIndex)
BoundParams == Optional({0, MaxIndex})
ContentParams == Optional({DefaultContent, "Item 0"})
SeedCounts == (0 - 1)..MaxSeed

----------------------------------------------------------------------------
(* Responses *)

Ok(message, items) == [message |-> message, items |-> items, status_code |-> 200]
HTTPException(code, detail) == [message |-> detail, items |-> <<>>, status_code |-> code]

CollisionDetail == "Item index collision. Ensure all items have a unique index."
InvalidDetail == "Invalid parameters"
NotFoundDetail(i) == "Item with index " \o ToString(i) \o " not found"

----------------------------------------------------------------------------
(* Helper functions, server.py:55-70 *)

item_index_exists(l, item_index) ==
    \E p \in 1..Len(l) : l[p].index = item_index

\* list.sort(key=index) is stable: an item is placed after every item whose
\* key is less than or equal to its own that precedes it.
InsertByIndex(s, x) ==
    LET k == Cardinality({ p \in 1..Len(s) : s[p].index <= x.index })
    IN  SubSeq(s, 1, k) \o <<x>> \o SubSeq(s, k + 1, Len(s))

\* Variant: the list is left in insertion order.
sort_item_list_unsorted(l) == l

RECURSIVE sort_item_list(_)
sort_item_list(l) ==
    IF l = <<>> THEN <<>>
    ELSE InsertByIndex(sort_item_list(SubSeq(l, 1, Len(l) - 1)), l[Len(l)])

\* range(n): empty when n <= 0
Range(n) == IF n <= 0 THEN <<>> ELSE [p \in 1..n |-> p - 1]

seed_listitems(n) ==
    LET r == Range(n)
    IN  [p \in 1..Len(r) |->
            ListItem("Item " \o ToString(r[p]), r[p], r[p] % 2 = 0)]

----------------------------------------------------------------------------
(* Handlers as functions of the collection: each yields the collection     *)
(* after the call and the response.                                        *)

Outcome(l, r) == [listitems |-> l, response |-> r]

\* Variant: the batch is appended and the re-sort is skipped.
add_list_item_unsorted(l, new_items) ==
    IF \E p \in 1..Len(new_items) : item_index_exists(l, new_items[p].index)
    THEN Outcome(l, HTTPException(400, CollisionDetail))
    ELSE Outcome(l \o new_items, Ok("success", <<>>))

\* POST /list/items, server.py:82-99
add_list_item(l, new_items) ==
    IF \E p \in 1..Len(new_items) : item_index_exists(l, new_items[p].index)
    THEN Outcome(l, HTTPException(400, CollisionDetail))
    ELSE Outcome(sort_item_list(l \o new_items), Ok("success", <<>>))

\* Variant: the range branch is tested before the specific_index branch.
get_items_range_first(l, start_index, end_index, specific_index) ==
    IF IsGiven(start_index) /\ IsGiven(end_index)
    THEN SelectSeq(l, LAMBDA item : Val(start_index) <= item.index
                                    /\ item.index <= Val(end_index))
    ELSE IF IsGiven(specific_index)
    THEN SelectSeq(l, LAMBDA item : item.index = Val(specific_index))
    ELSE l

\* GET /list/items, server.py:103-117
get_items(l, start_index, end_index, specific_index) ==
    IF IsGiven(specific_index)
    THEN SelectSeq(l, LAMBDA item : item.index = Val(specific_index))
    ELSE IF IsGiven(start_index) /\ IsGiven(end_index)
    THEN SelectSeq(l, LAMBDA item : Val(start_index) <= item.index
                                    /\ item.index <= Val(end_index))
    ELSE l

\* Variant: the content branch is tested before the range branch.
delete_items_content_first(l, start_index, end_index, specific_index, content) ==
    IF IsGiven(specific_index)
    THEN Outcome(SelectSeq(l, LAMBDA item : item.index # Val(specific_index)),
                 Ok("success", <<>>))
    ELSE IF IsGiven(content)
    THEN Outcome(SelectSeq(l, LAMBDA item : item.content # Val(content)),
                 Ok("success", <<>>))
    ELSE IF IsGiven(start_index) /\ IsGiven(end_index)
    THEN Outcome(SelectSeq(l, LAMBDA item : ~(Val(start_index) <= item.index
                                              /\ item.index <= Val(end_index))),
                 Ok("success", <<>>))
    ELSE Outcome(l, HTTPException(400, InvalidDetail))

\* Variant: specific_index removes the first matching item only.
delete_items_first_match(l, start_index, end_index, specific_index, content) ==
    IF IsGiven(specific_index)
    THEN LET hits == { p \in 1..Len(l) : l[p].index = Val(specific_index) }
             first == CHOOSE p \in hits : \A q \in hits : p <= q
         IN  Outcome(IF hits = {} THEN l
                     ELSE SubSeq(l, 1, first - 1) \o SubSeq(l, first + 1, Len(l)),
                     Ok("success", <<>>))
    ELSE IF IsGiven(start_index) /\ IsGiven(end_index)
    THEN Outcome(SelectSeq(l, LAMBDA item : ~(Val(start_index) <= item.index
                                              /\ item.index <= Val(end_index))),
                 Ok("success", <<>>))
    ELSE IF IsGiven(content)
    THEN Outcome(SelectSeq(l, LAMBDA item : item.content # Val(content)),
                 Ok("success", <<>>))
    ELSE Outcome(l, HTTPException(400, InvalidDetail))

\* DELETE /list/items, server.py:123-147
delete_items(l, start_index, end_index, specific_index, content) ==
    IF IsGiven(specific_index)
    THEN Outcome(sort_item_list(
                   SelectSeq(l, LAMBDA item : item.index # Val(specific_index))),
                 Ok("success", <<>>))
    ELSE IF IsGiven(start_index) /\ IsGiven(end_index)
    THEN Outcome(sort_item_list(
                   SelectSeq(l, LAMBDA item : ~(Val(start_index) <= item.index
                                                /\ item.index <= Val(end_index)))),
                 Ok("success", <<>>))
    ELSE IF IsGiven(content)
    THEN Outcome(sort_item_list(
                   SelectSeq(l, LAMBDA item : item.content # Val(content))),
                 Ok("success", <<>>))
    ELSE Outcome(l, HTTPException(400, InvalidDetail))

\* The inner loop of update_items, server.py:158-161: the first stored item
\* with the index is replaced, then break.
ReplaceFirst(l, updated_item) ==
    LET i == CHOOSE p \in 1..Len(l) :
                 /\ l[p].index = updated_item.index
                 /\ \A q \in 1..(p - 1) : l[q].index # updated_item.index
    IN  [l EXCEPT ![i] = updated_item]

\* PUT /list/items, server.py:151-168: the outer loop from position k on.
RECURSIVE UpdateFrom(_, _, _)
UpdateFrom(l, updated_items, k) ==
    IF k > Len(updated_items)
    THEN Outcome(sort_item_list(l), Ok("success", <<>>))
    ELSE IF item_index_exists(l, updated_items[k].index)
    THEN UpdateFrom(ReplaceFirst(l, updated_items[k]), updated_items, k + 1)
    ELSE Outcome(l, HTTPException(404, NotFoundDetail(updated_items[k].index)))

\* Variant: a batch with a missing index is rejected before anything is
\* applied.
update_items_all_or_nothing(l, updated_items) ==
    LET missing == { k \in 1..Len(updated_items) :
                       ~item_index_exists(l, updated_items[k].index) }
    IN  IF missing = {} THEN UpdateFrom(l, updated_items, 1)
        ELSE Outcome(l, HTTPException(404, NotFoundDetail(
                 updated_items[CHOOSE k \in missing :
                                   \A k2 \in missing : k <= k2].index)))

update_items(l, updated_items) == UpdateFrom(l, updated_items, 1)

\* GET /api/dump, server.py:171-176
api_dump(l) == Outcome(l, Ok("", l))

\* GET /api/clear, server.py:179-185
api_clear(l) == Outcome(<<>>, Ok("all list items cleared!", <<>>))

\* Variant: the generated items are added to the collection instead of
\* replacing it.
api_seed_keeps_prior(l, n) ==
    Outcome(l \o seed_listitems(n), Ok(ToString(n) \o " list items seeded", <<>>))

\* GET /api/seed, server.py:188-194
api_seed(l, n) ==
    Outcome(seed_listitems(n), Ok(ToString(n) \o " list items seeded", <<>>))

----------------------------------------------------------------------------
(* The state machine *)

Request(op, items, start_index, end_index, specific_index, content, n) ==
    [content |-> content, items |-> items, n |-> n,
     start_index |-> start_index, end_index |-> end_index,
     specific_index |-> specific_index, op |-> op]

Init ==
    /\ listitems = <<>>
    /\ before = <<>>
    /\ request = Request("start", <<>>, None, None, None, None, 0)
    /\ response = Ok("", <<>>)

\* Each request runs to completion: the state after it holds the collection
\* it left, the request, the collection it found and the response.
Serve(req, out) ==
    /\ before' = listitems
    /\ request' = req
    /\ listitems' = out.listitems
    /\ response' = out.response

AddListItem ==
    \E new_items \in BatchesOf(NewItems) :
        Serve(Request("add", new_items, None, None, None, None, 0),
              add_list_item(listitems, new_items))

GetItems ==
    \E s \in BoundParams, e \in BoundParams, k \in IndexParams :
        Serve(Request("query", <<>>, s, e, k, None, 0),
              Outcome(listitems, Ok("", get_items(listitems, s, e, k))))

DeleteItems ==
    \E s \in BoundParams, e \in BoundParams, k \in IndexParams,
       c \in ContentParams :
        Serve(Request("delete", <<>>, s, e, k, c, 0),
              delete_items(listitems, s, e, k, c))

UpdateItems ==
    \E updated_items \in BatchesOf(EditedItems) :
        Serve(Request("update", updated_items, None, None, None, None, 0),
              update_items(listitems, updated_items))

ApiDump ==
    Serve(Request("dump", <<>>, None, None, None, None, 0), api_dump(listitems))

ApiClear ==
    Serve(Request("clear", <<>>, None, None, None, None, 0), api_clear(listitems))

ApiSeed ==
    \E n \in SeedCounts :
        Serve(Request("seed", <<>>, None, None, None, None, n),
              api_seed(listitems, n))

Next ==
    \/ AddListItem
    \/ GetItems
    \/ DeleteItems
    \/ UpdateItems
    \/ ApiDump
    \/ ApiClear
    \/ ApiSeed

Spec == Init /\ [][Next]_vars

----------------------------------------------------------------------------
(* Vocabulary of the properties *)

Ascending(l) == \A p \in 1..(Len(l) - 1) : l[p].index <= l[p + 1].index

Occurrences(l, x) == Cardinality({ p \in 1..Len(l) : l[p] = x })

Elements(l) == { l[p] : p \in 1..Len(l) }

IndexSet(l) == { l[p].index : p \in 1..Len(l) }

PairwiseDistinctIndex(l) ==
    \A p, q \in 1..Len(l) : p # q => l[p].index # l[q].index

Succeeded == response.status_code = 200
ConflictError == response.status_code = 400 /\ response.message = CollisionDetail
InvalidParameterError == response.status_code = 400 /\ response.message = InvalidDetail
NotFoundError(i) == response.status_code = 404 /\ response.message = NotFoundDetail(i)

----------------------------------------------------------------------------
(* C1: in every reachable state no two items of the collection have the    *)
(* same index.                                                             *)
C1_UniqueIndex == PairwiseDistinctIndex(listitems)

(* C2: an add whose batch contains an index already stored, or two items   *)
(* with the same index, reports ConflictError and leaves the collection as *)
(* it was.                                                                 *)
C2_AddAllOrNothing ==
    (/\ request.op = "add"
     /\ \/ \E p \in 1..Len(request.items) :
               request.items[p].index \in IndexSet(before)
        \/ ~PairwiseDistinctIndex(request.items))
    => (ConflictError /\ listitems = before)

C4_AddThenQueryIsUnion ==
    (/\ request.op = "add"
     /\ PairwiseDistinctIndex(request.items)
     /\ IndexSet(request.items) \cap IndexSet(before) = {})
    => LET q == get_items(listitems, None, None, None)
       IN  /\ Succeeded
           /\ Ascending(q)
           /\ Len(q) = Len(before) + Len(request.items)
           /\ \A x \in Elements(q) \cup Elements(before) \cup Elements(request.items) :
                  Occurrences(q, x) = Occurrences(before, x)
                                      + Occurrences(request.items, x)

C4_Witness ==
    /\ request.op = "add"
    /\ Succeeded
    /\ before # <<>>
    /\ request.items # <<>>
    /\ PairwiseDistinctIndex(listitems)
    /\ listitems[1] = request.items[Len(request.items)]

(* C5: for every index k, query(specific_index=k) returns at most one      *)
(* item: the stored item with index k if there is one, else nothing.       *)
C5_QuerySpecificAtMostOne ==
    \A k \in 0..MaxIndex :
        LET r == get_items(listitems, None, None, Some(k))
        IN  /\ Len(r) <= 1
            /\ (k \in IndexSet(listitems)) => (Len(r) = 1 /\ r[1].index = k
                                               /\ r[1] \in Elements(listitems))
            /\ (k \notin IndexSet(listitems)) => r = <<>>

(* C6: query never changes the collection, and its result follows the      *)
(* precedence specific_index, then the range when both bounds are given,   *)
(* then the whole collection (also when only one bound is given); range    *)
(* and whole-collection results are in ascending order.                    *)
C6_QueryPrecedence ==
    request.op = "query" =>
        LET r == response.items
            s == request.start_index
            e == request.end_index
            k == request.specific_index
        IN  /\ listitems = before
            /\ Succeeded
            /\ IF IsGiven(k)
               THEN r = SelectSeq(before, LAMBDA it : it.index = Val(k))
               ELSE IF IsGiven(s) /\ IsGiven(e)
               THEN /\ r = SelectSeq(before, LAMBDA it : Val(s) <= it.index
                                                        /\ it.index <= Val(e))
                    /\ Ascending(r)
                    /\ (Val(s) > Val(e) => r = <<>>)
               ELSE r = before /\ Ascending(r)

C6_Witness ==
    /\ request.op = "query"
    /\ IsGiven(request.specific_index)
    /\ IsGiven(request.start_index)
    /\ IsGiven(request.end_index)
    /\ Len(response.items) = 1
    /\ Len(SelectSeq(before, LAMBDA it : Val(request.start_index) <= it.index
                                         /\ it.index <= Val(request.end_index))) >= 2

(* C7: an update stops at the first batch item whose index is not stored   *)
(* and reports NotFoundError naming that index; every batch item before it *)
(* has replaced the stored item with its index (the first one, the last    *)
(* such batch item remaining), no item at or after it has any effect, and  *)
(* the indices in the collection are as before.                            *)
C7_UpdateStopsAtFirstMissing ==
    LET b == request.items
        missing == { j \in 1..Len(b) : b[j].index \notin IndexSet(before) }
    IN  (request.op = "update" /\ missing # {}) =>
        LET j == CHOOSE m \in missing : \A m2 \in missing : m <= m2
        IN  /\ NotFoundError(b[j].index)
            /\ Len(listitems) = Len(before)
            /\ IndexSet(listitems) = IndexSet(before)
            /\ \A p \in 1..Len(before) :
                   LET hits == { i \in 1..(j - 1) : b[i].index = before[p].index }
                       first == \A q \in 1..(p - 1) : before[q].index # before[p].index
                   IN  IF hits # {} /\ first
                       THEN listitems[p] = b[CHOOSE i \in hits : \A i2 \in hits : i2 <= i]
                       ELSE listitems[p] = before[p]

C7_Witness ==
    /\ request.op = "update"
    /\ Len(request.items) >= 2
    /\ response.status_code = 404
    /\ listitems # before

(* C8: delete uses exactly one selector: specific_index if given, else the *)
(* range if both bounds are given, else the content if given; with none of *)
(* these (also with a single range bound and no content) it reports        *)
(* InvalidParameterError and leaves the collection unchanged.              *)
C8_DeleteSelectorPrecedence ==
    request.op = "delete" =>
        LET s == request.start_index
            e == request.end_index
            k == request.specific_index
            c == request.content
        IN  IF IsGiven(k)
            THEN Succeeded
                 /\ listitems = SelectSeq(before, LAMBDA it : it.index # Val(k))
            ELSE IF IsGiven(s) /\ IsGiven(e)
            THEN Succeeded
                 /\ listitems = SelectSeq(before, LAMBDA it : it.index < Val(s)
                                                              \/ it.index > Val(e))
            ELSE IF IsGiven(c)
            THEN Succeeded
                 /\ listitems = SelectSeq(before, LAMBDA it : it.content # Val(c))
            ELSE InvalidParameterError /\ listitems = before

C8_Witness ==
    /\ request.op = "delete"
    /\ ~IsGiven(request.specific_index)
    /\ IsGiven(request.start_index)
    /\ ~IsGiven(request.end_index)
    /\ ~IsGiven(request.content)
    /\ response.status_code = 400
    /\ Len(listitems) >= 2

(* C9: delete(specific_index=k) succeeds and leaves the prior collection   *)
(* without the items whose index is k: nothing with index k remains, every *)
(* other item is still there, unchanged and in the same relative order,    *)
(* and a collection with no index k is unchanged.                          *)
C9_DeleteSpecificFrame ==
    (request.op = "delete" /\ IsGiven(request.specific_index)) =>
        LET k == Val(request.specific_index)
            kept == { p \in 1..Len(before) : before[p].index # k }
        IN  /\ Succeeded
            /\ k \notin IndexSet(listitems)
            /\ Len(listitems) = Cardinality(kept)
            /\ \A p \in kept :
                   listitems[Cardinality({ q \in kept : q <= p })] = before[p]
            /\ (k \notin IndexSet(before)) => listitems = before

C9_Witness ==
    /\ request.op = "delete"
    /\ IsGiven(request.specific_index)
    /\ IsGiven(request.start_index)
    /\ IsGiven(request.end_index)
    /\ IsGiven(request.content)
    /\ Val(request.specific_index) \in IndexSet(before)
    /\ listitems # <<>>
    /\ Len(listitems) < Len(before)

(* C10: seed(count), count >= 0, leaves exactly count items with indices   *)
(* 0..count-1 in ascending order, marked exactly on the even indices, with *)
(* pairwise distinct content, whatever the collection was before; seed(0)  *)
(* and clear leave the collection empty.                                   *)
C10_SeedReplacesCollection ==
    /\ (request.op = "seed" /\ request.n >= 0) =>
           /\ Len(listitems) = request.n
           /\ \A p \in 1..Len(listitems) :
                  /\ listitems[p].index = p - 1
                  /\ listitems[p].marked = ((p - 1) % 2 = 0)
           /\ \A p, q \in 1..Len(listitems) :
                  p # q => listitems[p].content # listitems[q].content
           /\ (request.n = 0 => listitems = <<>>)
    /\ request.op = "clear" => listitems = <<>>

C10_Witness ==
    /\ request.op = "seed"
    /\ request.n = 2
    /\ Len(before) > 2
    /\ \E p \in 1..Len(before) : before[p].content = DefaultContent

====
